---- MODULE Spec2Model ----
(***************************************************************************)
(* State-machine model of src/routes/+page.svelte: the image registry, the *)
(* selection, the effect settings, the animation seed, the preview canvas  *)
(* and the image decodes and canvas serialisations that are in flight.     *)
(*                                                                         *)
(* One action is one browser task: an event handler together with the      *)
(* component update it schedules (Svelte runs the reactive block `$:` in   *)
(* the microtask that follows the handler, before any other task), or the  *)
(* completion callback of an image decode or of canvas.toBlob.             *)
(***************************************************************************)
EXTENDS Integers, Sequences, FiniteSets, Bags, TLC

VARIABLES
    uploadedImages,   \* line 12: sequence of UploadedImage records
    selectedId,       \* line 13: an image id, or NoId for null
    canvas,           \* line 14: the bound <canvas> element and what it shows
    animationSeed,    \* line 15
    effectSettings,   \* lines 17-21: [intensity, grain, tint]
    blobStore,        \* the browser's object-URL store: live url -> file
    revoked,          \* url -> number of URL.revokeObjectURL calls on it
    nextId,           \* next value handed out by randomUUID / createObjectURL
    pending,          \* bag of Image objects whose decode is in flight
    exports,          \* bag of canvas.toBlob calls whose callback is awaited
    download,         \* the download the last task started (link.click()), if any
    ctxAvailable,     \* whether canvas.getContext('2d') yields a context
    destroyed,        \* the component was destroyed (onDestroy has run)
    ingested,         \* files ingested since the last removeAll
    edits,            \* input events of the settings controls so far
    added             \* number of records the last task appended to the registry

vars == <<uploadedImages, selectedId, canvas, animationSeed, effectSettings,
          blobStore, revoked, nextId, pending, exports, download,
          ctxAvailable, destroyed, ingested, edits, added>>

-----------------------------------------------------------------------------
(* Bounds of the model *)

\* files ingested over a whole run (ids and object URLs are 1..MaxFiles)
MaxFiles == 2
\* callbacks awaited at once: image decodes and canvas.toBlob calls
MaxInFlight == 2
\* adjustments over a whole run: input events of the settings controls and
\* clicks on the refresh button
MaxTweaks == 1

-----------------------------------------------------------------------------
(* Values *)

\* selectedId = null (line 13); also "no image drawn" on the canvas
NoId == 0

\* const maxWidth = 1024 (line 79)
maxWidth == 1024

\* a <canvas> without width/height attributes (line 259) is 300 x 150
CanvasDefaultWidth == 300
CanvasDefaultHeight == 150

\* the files a user can pick: name, size and type as the File reports them,
\* and what decoding the bytes yields (intrinsic size, or no image at all)
Files ==
    { [name |-> "wide.png",  size |-> 2500000, type |-> "image/png",
       width |-> 2000, height |-> 1000, decodable |-> TRUE],
      [name |-> "notes.txt", size |-> 12,      type |-> "",
       width |-> 0,    height |-> 0,    decodable |-> FALSE] }

\* slider positions (hundredths) and colours the controls can be set to;
\* 55, 25 and "#7c3aed" are the initial values of lines 18-20
Intensities == {55, 100}
Grains      == {25, 100}
Tints       == {"#7c3aed", "#000000"}

InitialSettings == [intensity |-> 55, grain |-> 25, tint |-> "#7c3aed"]

NoDownload == [kind |-> "none", name |-> "", suffix |-> ""]

\* every FileList of at most n files, the empty one included
RECURSIVE FileLists(_)
FileLists(n) ==
    IF n = 0 THEN {<<>>}
    ELSE LET shorter == FileLists(n - 1)
         IN  shorter \cup { Append(s, f) : s \in { t \in shorter : Len(t) = n - 1 },
                                           f \in Files }

\* the FileLists a file input or a drop can deliver
FileInputs == FileLists(MaxFiles)

Max(a, b) == IF a >= b THEN a ELSE b
Min(a, b) == IF a <= b THEN a ELSE b

\* Math.round(n / d) for n >= 0, d > 0: floor(n/d + 1/2)
Round(n, d) == (2 * n + d) \div (2 * d)

-----------------------------------------------------------------------------
(* Pure helpers of the component *)

\* line 69: uploadedImages.find((image) => image.id === selectedId);
\* the set holds the found record, or is empty for undefined
selectedImage(images, sel) ==
    LET hits == { i \in DOMAIN images : images[i].id = sel }
    IN  IF hits = {} THEN {}
        ELSE { images[CHOOSE i \in hits : \A j \in hits : i <= j] }

\* (variant: Math.max(1, ...) left out)
ScaledSizeUnclamped(w, h) ==
    LET num == IF w <= maxWidth THEN 1 ELSE maxWidth
        den == IF w <= maxWidth THEN 1 ELSE w
    IN  [width  |-> Round(w * num, den),
         height |-> Round(h * num, den)]

\* lines 79-82: the canvas size for a decoded image of w x h.
\* scale = Math.min(1, maxWidth / w) is 1 when w <= maxWidth (w = 0 gives
\* Infinity, so 1) and maxWidth / w otherwise; the products are rounded half
\* up.  (Exact arithmetic agrees with IEEE doubles here: a product
\* h * 1024 / w is a rounding tie only when w is a multiple of 2048, and for
\* w = 2048 and w = 4096 the scale is a power of two and the product exact.)
ScaledSize(w, h) ==
    LET num == IF w <= maxWidth THEN 1 ELSE maxWidth
        den == IF w <= maxWidth THEN 1 ELSE w
    IN  [width  |-> Max(1, Round(w * num, den)),
         height |-> Max(1, Round(h * num, den))]

-----------------------------------------------------------------------------
(* The browser's object-URL store *)

\* URL.createObjectURL for each file of `files` in turn (line 49): the urls
\* first .. first + Len(files) - 1 become live
createObjectURLs(store, files, first) ==
    LET fresh == { first + k - 1 : k \in 1..Len(files) }
    IN  [u \in DOMAIN store \cup fresh |->
            IF u \in fresh THEN files[u - first + 1] ELSE store[u]]

\* URL.revokeObjectURL on every url of `urls` (lines 161, 179)
revokeObjectURLs(store, urls) ==
    [u \in DOMAIN store \ urls |-> store[u]]

\* the revoke calls made by image => URL.revokeObjectURL(image.url) over
\* `images`, added to the tally
CountRevokes(tally, images) ==
    [u \in DOMAIN tally |->
        tally[u] + Cardinality({ i \in DOMAIN images : images[i].url = u })]

\* what a fetch of a revoked (or unknown) object URL yields: nothing that
\* decodes
NoFile ==
    [name |-> "", size |-> 0, type |-> "", width |-> 0, height |-> 0,
     decodable |-> FALSE]

\* line 95, img.src = current.url: the bytes the url resolves to
Resolve(store, url) == IF url \in DOMAIN store THEN store[url] ELSE NoFile

-----------------------------------------------------------------------------
(* Rendering *)

\* (variant: line 75 left out, the missing context is not noticed)
drawPreviewNoCtxCheck(images, sel, cnv, store, pend) ==
    LET current == selectedImage(images, sel)
    IN  IF ~cnv.bound \/ current = {} THEN pend
        ELSE LET c == CHOOSE x \in current : TRUE
             IN  pend (+) SetToBag({ [id      |-> c.id,
                                      url     |-> c.url,
                                      file    |-> Resolve(store, c.url),
                                      stale   |-> FALSE] })

\* lines 71-96, up to img.src = current.url: the decodes in flight after
\* one call of drawPreview, given the state the call reads.  The Image
\* keeps the bytes its url resolved to when src was set, so a later revoke
\* does not stop the decode.  `stale` tells whether effectSettings was
\* changed after the call.
drawPreview(images, sel, cnv, store, pend) ==
    LET current == selectedImage(images, sel)
    IN  IF ~cnv.bound \/ current = {} THEN pend
        ELSE IF ~ctxAvailable THEN pend
        ELSE LET c == CHOOSE x \in current : TRUE
             IN  pend (+) SetToBag({ [id      |-> c.id,
                                      url     |-> c.url,
                                      file    |-> Resolve(store, c.url),
                                      stale   |-> FALSE] })

\* (variant: the callback reads a copy of the settings taken when the
\* component was created, as after a top-level destructuring)
OnloadSettingsCopied(p) == InitialSettings

\* the effectSettings an onload callback reads (lines 89, 102-126): the
\* shared object at the time the callback runs
OnloadSettings(p) == effectSettings

\* lines 84-93: the canvas after the callback has sized it and drawn image
\* p with the settings and the seed it reads
DrawnCanvas(p) ==
    LET size == ScaledSize(p.file.width, p.file.height)
    IN  [bound  |-> TRUE,
         width  |-> size.width,
         height |-> size.height,
         drawn  |-> p.id,
         used   |-> OnloadSettings(p),
         seed   |-> animationSeed,
         raced  |-> p.stale]

\* (variant: a completion for an image that is no longer selected is dropped)
OnloadCanvasIfCurrent(p) ==
    IF p.id = selectedId THEN DrawnCanvas(p) ELSE canvas

\* lines 78-94: what the canvas shows after img.onload of decode p; the
\* callback does not look at selectedId
OnloadCanvas(p) == DrawnCanvas(p)

\* (variant: no reactive block, nothing redraws on a change)
ReactiveAbsent(dirty, images, sel, cnv, store, pend) == pend

\* lines 169-176: the reactive block runs drawPreview once in the update
\* that follows a handler, if the handler invalidated selectedId (a changed
\* value), effectSettings (any assignment to the object) or animationSeed
Reactive(dirty, images, sel, cnv, store, pend) ==
    IF dirty THEN drawPreview(images, sel, cnv, store, pend)
    ELSE pend

\* the decodes in flight, each marked stale: effectSettings has changed
\* since they were started
MarkStale(pend) ==
    LET marked(x) == [x EXCEPT !.stale = TRUE]
        targets == { marked(x) : x \in BagToSet(pend) }
    IN  [t \in targets |->
            (IF BagIn(t, pend) THEN CopiesIn(t, pend) ELSE 0)
            + (IF BagIn([t EXCEPT !.stale = FALSE], pend)
               THEN CopiesIn([t EXCEPT !.stale = FALSE], pend) ELSE 0)]

InFlight(pend, exps) == BagCardinality(pend) + BagCardinality(exps) <= MaxInFlight

-----------------------------------------------------------------------------
(* Initial state: the component is constructed and mounted *)

\* line 259: the canvas as mounted, not yet sized or drawn by the component
MountedCanvas ==
    [bound  |-> TRUE,
     width  |-> CanvasDefaultWidth,
     height |-> CanvasDefaultHeight,
     drawn  |-> NoId,
     used   |-> InitialSettings,
     seed   |-> 0,
     raced  |-> FALSE]

Init ==
    /\ uploadedImages = <<>>
    /\ selectedId = NoId
    /\ canvas = MountedCanvas
    /\ animationSeed = 0
    /\ effectSettings = InitialSettings
    /\ blobStore = << >>
    /\ revoked = [u \in 1..MaxFiles |-> 0]
    /\ nextId = 1
    /\ pending = EmptyBag
    /\ exports = EmptyBag
    /\ download = NoDownload
    /\ ctxAvailable \in BOOLEAN
    /\ destroyed = FALSE
    /\ ingested = 0
    /\ edits = 0
    /\ added = 0

-----------------------------------------------------------------------------
(* Ingestion: addFiles, lines 45-62, reached from handleFileInput (39-43)   *)
(* and handleDrop (64-67)                                                   *)

\* lines 47-57: one record per file, in file order, each with a fresh id
\* (crypto.randomUUID) and a fresh object URL (URL.createObjectURL)
NextImages(files, first) ==
    [k \in 1..Len(files) |->
        [id   |-> first + k - 1,
         name |-> files[k].name,
         size |-> files[k].size,
         type |-> files[k].type,
         url  |-> first + k - 1]]

\* (variant: the new records are put in front)
PrependImages(images, nextImages) == nextImages \o images

\* line 58: uploadedImages = [...uploadedImages, ...nextImages]
AppendImages(images, nextImages) == images \o nextImages

\* (variant: the guard !selectedId left out)
SelectAfterAddAlways(sel, nextImages) ==
    IF Len(nextImages) > 0 THEN nextImages[1].id ELSE sel

\* lines 59-61: if (!selectedId && nextImages.length) selectedId = nextImages[0].id
SelectAfterAdd(sel, nextImages) ==
    IF sel = NoId /\ Len(nextImages) > 0 THEN nextImages[1].id ELSE sel

addFiles(files) ==
    /\ ~destroyed
    /\ nextId + Len(files) - 1 <= MaxFiles
    /\ added' = Len(files)
    /\ download' = NoDownload
    /\ IF Len(files) = 0
       THEN \* line 46: if (!files?.length) return
            UNCHANGED <<uploadedImages, selectedId, canvas, animationSeed,
                        effectSettings, blobStore, revoked, nextId, pending,
                        exports, ctxAvailable, destroyed, ingested, edits>>
       ELSE LET nextImages == NextImages(files, nextId)
            IN  /\ blobStore' = createObjectURLs(blobStore, files, nextId)
                /\ nextId' = nextId + Len(files)
                /\ uploadedImages' = AppendImages(uploadedImages, nextImages)
                /\ selectedId' = SelectAfterAdd(selectedId, nextImages)
                /\ ingested' = ingested + Len(files)
                /\ UNCHANGED edits
                /\ pending' = Reactive(selectedId' # selectedId, uploadedImages',
                                       selectedId', canvas, blobStore', pending)
                /\ InFlight(pending', exports)
                /\ UNCHANGED <<canvas, animationSeed, effectSettings, revoked,
                               exports, ctxAvailable, destroyed>>

-----------------------------------------------------------------------------
(* Selection: the click handler of a file card, line 203 *)

selectImage(id) ==
    /\ ~destroyed
    /\ \E i \in DOMAIN uploadedImages : uploadedImages[i].id = id
    /\ added' = 0
    /\ download' = NoDownload
    /\ selectedId' = id
    /\ pending' = Reactive(selectedId' # selectedId, uploadedImages, selectedId',
                           canvas, blobStore, pending)
    /\ InFlight(pending', exports)
    /\ UNCHANGED <<uploadedImages, canvas, animationSeed, effectSettings,
                   blobStore, revoked, nextId, exports, ctxAvailable, destroyed, ingested, edits>>

-----------------------------------------------------------------------------
(* Effect settings: the bound inputs of lines 224-241.  An input event      *)
(* reports a changed value; its handler assigns the field of               *)
(* effectSettings and invalidates the object.                              *)

setSettings(settings) ==
    /\ ~destroyed
    /\ settings # effectSettings
    /\ edits + animationSeed < MaxTweaks
    /\ edits' = edits + 1
    /\ download' = NoDownload
    /\ effectSettings' = settings
    /\ pending' = Reactive(TRUE, uploadedImages, selectedId, canvas, blobStore,
                           MarkStale(pending))
    /\ InFlight(pending', exports)
    /\ UNCHANGED <<uploadedImages, selectedId, canvas, animationSeed, blobStore,
                   revoked, nextId, exports, ctxAvailable,
                   destroyed, ingested>>

\* line 230: bind:value={effectSettings.intensity}
setIntensity(v) ==
    /\ added' = 0
    /\ setSettings([effectSettings EXCEPT !.intensity = v])

\* line 236: bind:value={effectSettings.grain}
setGrain(v) ==
    /\ added' = 0
    /\ setSettings([effectSettings EXCEPT !.grain = v])

\* line 241: bind:value={effectSettings.tint}
setTint(v) ==
    /\ added' = 0
    /\ setSettings([effectSettings EXCEPT !.tint = v])

-----------------------------------------------------------------------------
(* Refresh: refreshDummyEffect, lines 155-158; its button is disabled while *)
(* nothing is selected (line 247)                                           *)

\* (variant: the seed is stepped by 2)
RefreshSeedByTwo(seed) == seed + 2

\* line 156: animationSeed += 1
RefreshSeed(seed) == seed + 1

refreshDummyEffect ==
    /\ ~destroyed
    /\ selectedId # NoId
    /\ edits + animationSeed < MaxTweaks
    /\ added' = 0
    /\ download' = NoDownload
    /\ animationSeed' = RefreshSeed(animationSeed)
    \* line 157 calls drawPreview at once; the update that follows runs the
    \* reactive block too, because animationSeed was invalidated
    /\ pending' = Reactive(animationSeed' # animationSeed, uploadedImages,
                           selectedId, canvas, blobStore,
                           drawPreview(uploadedImages, selectedId, canvas,
                                       blobStore, pending))
    /\ InFlight(pending', exports)
    /\ UNCHANGED <<uploadedImages, selectedId, canvas, effectSettings, blobStore,
                   revoked, nextId, exports, ctxAvailable,
                   destroyed, ingested, edits>>

-----------------------------------------------------------------------------
(* removeAll, lines 160-167; its button exists while the registry is not   *)
(* empty (line 195)                                                         *)

ImageUrls(images) == { images[i].url : i \in DOMAIN images }

\* (variant: only the first record's url is revoked)
RevokeFirstImage(store, images) ==
    IF Len(images) = 0 THEN store ELSE revokeObjectURLs(store, {images[1].url})

\* line 161: uploadedImages.forEach((image) => URL.revokeObjectURL(image.url))
RevokeImages(store, images) == revokeObjectURLs(store, ImageUrls(images))

\* (variant: line 162 left out, the records stay registered)
RemoveAllImagesKept(images) == images

\* line 162: uploadedImages = []
RemoveAllImages(images) == <<>>

\* (variant: line 163 left out)
RemoveAllSelectedKept(sel) == sel

\* line 163: selectedId = null
RemoveAllSelected(sel) == NoId

\* (variant: canvas.width = 0 alone)
RemoveAllCanvasWidthOnly(cnv) ==
    IF cnv.bound
    THEN [cnv EXCEPT !.width = 0, !.drawn = NoId,
                     !.used = InitialSettings, !.seed = 0, !.raced = FALSE]
    ELSE cnv

\* lines 164-166: canvas.width = canvas.height = 0, which also clears it
RemoveAllCanvas(cnv) ==
    IF cnv.bound
    THEN [cnv EXCEPT !.width = 0, !.height = 0, !.drawn = NoId,
                     !.used = InitialSettings, !.seed = 0, !.raced = FALSE]
    ELSE cnv

removeAll ==
    /\ ~destroyed
    /\ Len(uploadedImages) > 0
    /\ added' = 0
    /\ download' = NoDownload
    /\ uploadedImages' = RemoveAllImages(uploadedImages)
    /\ blobStore' = RevokeImages(blobStore, uploadedImages)
    /\ revoked' = CountRevokes(revoked, uploadedImages)
    /\ selectedId' = RemoveAllSelected(selectedId)
    /\ canvas' = RemoveAllCanvas(canvas)
    /\ ingested' = 0
    /\ UNCHANGED edits
    /\ pending' = Reactive(selectedId' # selectedId, uploadedImages', selectedId',
                           canvas', blobStore', pending)
    /\ UNCHANGED <<animationSeed, effectSettings, nextId, exports, ctxAvailable, destroyed>>

-----------------------------------------------------------------------------
(* Decode completion: img.onload, lines 78-94.  No onerror handler is set,  *)
(* so a file that does not decode only drops out of flight.                 *)

onload(p) ==
    /\ BagIn(p, pending)
    /\ p.file.decodable
    /\ added' = 0
    /\ download' = NoDownload
    /\ pending' = pending (-) SetToBag({p})
    \* after teardown bind:this has reset `canvas` to null and line 84 throws
    /\ canvas' = IF canvas.bound THEN OnloadCanvas(p) ELSE canvas
    /\ UNCHANGED <<uploadedImages, selectedId, animationSeed, effectSettings,
                   blobStore, revoked, nextId, exports, ctxAvailable, destroyed, ingested, edits>>

onerror(p) ==
    /\ BagIn(p, pending)
    /\ ~p.file.decodable
    /\ added' = 0
    /\ download' = NoDownload
    /\ pending' = pending (-) SetToBag({p})
    /\ UNCHANGED <<uploadedImages, selectedId, canvas, animationSeed,
                   effectSettings, blobStore, revoked, nextId, exports,
                   ctxAvailable, destroyed, ingested, edits>>

-----------------------------------------------------------------------------
(* Export: downloadPreview (lines 134-144, suspended at the await of line   *)
(* 136) and downloadOriginal (lines 146-153); both buttons are disabled     *)
(* while nothing is selected (lines 250, 253)                               *)

\* (variant: the serialisation always yields data)
ToBlobAlwaysData(cnv) == [data |-> TRUE]

\* canvas.toBlob hands its callback null for a canvas without pixels, and
\* otherwise an encoding of the bitmap (data tells which)
ToBlob(cnv) ==
    IF cnv.width = 0 \/ cnv.height = 0
    THEN [data |-> FALSE]
    ELSE [data |-> TRUE]

\* line 141: `${selectedImage()?.name ?? 'preview'}.png`, read after the await
PreviewName(images, sel) ==
    LET current == selectedImage(images, sel)
    IN  IF current = {} THEN "preview" ELSE (CHOOSE x \in current : TRUE).name

downloadPreview ==
    /\ ~destroyed
    /\ selectedId # NoId
    /\ added' = 0
    /\ download' = NoDownload
    \* line 135: if (!canvas || !selectedImage()) return
    /\ exports' = IF ~canvas.bound \/ selectedImage(uploadedImages, selectedId) = {}
                  THEN exports
                  ELSE exports (+) SetToBag({ [blob    |-> ToBlob(canvas),
                                               invoked |-> PreviewName(uploadedImages,
                                                                       selectedId)] })
    /\ InFlight(pending, exports')
    /\ UNCHANGED <<uploadedImages, selectedId, canvas, animationSeed,
                   effectSettings, blobStore, revoked, nextId, pending,
                   ctxAvailable, destroyed, ingested, edits>>

\* lines 137-143, run when toBlob calls back
downloadPreviewResume(e) ==
    /\ BagIn(e, exports)
    /\ added' = 0
    /\ exports' = exports (-) SetToBag({e})
    /\ download' =
         IF ~e.blob.data THEN NoDownload   \* line 137: if (!blob) return
         ELSE [kind   |-> "preview",
               name   |-> PreviewName(uploadedImages, selectedId),
               suffix |-> ".png"]
    /\ UNCHANGED <<uploadedImages, selectedId, canvas, animationSeed,
                   effectSettings, blobStore, revoked, nextId, pending,
                   ctxAvailable, destroyed, ingested, edits>>

downloadOriginal ==
    /\ ~destroyed
    /\ selectedId # NoId
    /\ added' = 0
    /\ LET current == selectedImage(uploadedImages, selectedId)
       IN  download' =
             IF current = {} THEN NoDownload   \* line 148
             ELSE LET c == CHOOSE x \in current : TRUE
                  IN  [kind |-> "original", name |-> c.name, suffix |-> ""]
    /\ UNCHANGED <<uploadedImages, selectedId, canvas, animationSeed,
                   effectSettings, blobStore, revoked, nextId, pending, exports,
                   ctxAvailable, destroyed, ingested, edits>>

-----------------------------------------------------------------------------
(* Teardown: onDestroy, lines 178-180 *)

\* (variant: line 179 left out, teardown releases nothing)
onDestroyNoRelease ==
    /\ ~destroyed
    /\ added' = 0
    /\ download' = NoDownload
    /\ destroyed' = TRUE
    /\ canvas' = [canvas EXCEPT !.bound = FALSE]
    /\ UNCHANGED <<uploadedImages, selectedId, animationSeed, effectSettings,
                   blobStore, revoked, nextId, pending, exports, ctxAvailable,
                   ingested, edits>>

onDestroy ==
    /\ ~destroyed
    /\ added' = 0
    /\ download' = NoDownload
    /\ blobStore' = RevokeImages(blobStore, uploadedImages)
    /\ revoked' = CountRevokes(revoked, uploadedImages)
    /\ destroyed' = TRUE
    /\ canvas' = [canvas EXCEPT !.bound = FALSE]
    /\ UNCHANGED <<uploadedImages, selectedId, animationSeed, effectSettings,
                   nextId, pending, exports, ctxAvailable, ingested, edits>>

-----------------------------------------------------------------------------

Next ==
    \/ \E files \in FileInputs : addFiles(files)
    \/ \E id \in 1..MaxFiles : selectImage(id)
    \/ \E v \in Intensities : setIntensity(v)
    \/ \E v \in Grains : setGrain(v)
    \/ \E v \in Tints : setTint(v)
    \/ refreshDummyEffect
    \/ removeAll
    \/ \E p \in BagToSet(pending) : onload(p)
    \/ \E p \in BagToSet(pending) : onerror(p)
    \/ downloadPreview
    \/ \E e \in BagToSet(exports) : downloadPreviewResume(e)
    \/ downloadOriginal
    \/ onDestroy

Spec == Init /\ [][Next]_vars

-----------------------------------------------------------------------------
(* Scaling over a range of image sizes: the state right after one image of *)
(* w x h was ingested into the fresh component (addFiles, then the update   *)
(* that starts its decode), followed by the completion of that decode.      *)

\* widths 1..MaxProbeWidth cover 1024 and 2048 and both sides of each
MaxProbeWidth == 2100
MaxProbeHeight == 30

ProbeFile(w, h) ==
    [name |-> "probe.png", size |-> 1, type |-> "image/png",
     width |-> w, height |-> h, decodable |-> TRUE]

ScaleInit ==
    \E w \in 1..MaxProbeWidth, h \in 1..MaxProbeHeight :
        LET files == << ProbeFile(w, h) >>
            nextImages == NextImages(files, 1)
        IN  /\ uploadedImages = AppendImages(<<>>, nextImages)
            /\ selectedId = SelectAfterAdd(NoId, nextImages)
            /\ canvas = MountedCanvas
            /\ animationSeed = 0
            /\ effectSettings = InitialSettings
            /\ blobStore = createObjectURLs(<< >>, files, 1)
            /\ revoked = [u \in 1..MaxFiles |-> 0]
            /\ nextId = 2
            /\ pending = SetToBag({ [id      |-> nextImages[1].id,
                                     url     |-> nextImages[1].url,
                                     file    |-> files[1],
                                     stale   |-> FALSE] })
            /\ exports = EmptyBag
            /\ download = NoDownload
            /\ ctxAvailable = TRUE
            /\ destroyed = FALSE
            /\ ingested = 1
            /\ edits = 0
            /\ added = 1

ScaleNext == \E p \in BagToSet(pending) : onload(p)

ScaleSpec == ScaleInit /\ [][ScaleNext]_vars

-----------------------------------------------------------------------------
(* Edge cases of the decode: the state right after one file was ingested    *)
(* into the fresh component, the file being one that does not decode, or   *)
(* one that decodes to an image of zero intrinsic width or height (an SVG  *)
(* whose root has width="0": the load event fires and img.width is 0),     *)
(* followed by the load or error event of its decode.                      *)

EdgeFile(w, h, d) ==
    [name |-> "edge.svg", size |-> 1, type |-> "image/svg+xml",
     width |-> w, height |-> h, decodable |-> d]

EdgeFiles ==
    { EdgeFile(0, 0, FALSE) }
    \cup { EdgeFile(0, h, TRUE) : h \in 0..MaxProbeHeight }
    \cup { EdgeFile(w, 0, TRUE) : w \in 0..MaxProbeWidth }

EdgeInit ==
    \E f \in EdgeFiles :
        LET files == << f >>
            nextImages == NextImages(files, 1)
        IN  /\ uploadedImages = AppendImages(<<>>, nextImages)
            /\ selectedId = SelectAfterAdd(NoId, nextImages)
            /\ canvas = MountedCanvas
            /\ animationSeed = 0
            /\ effectSettings = InitialSettings
            /\ blobStore = createObjectURLs(<< >>, files, 1)
            /\ revoked = [u \in 1..MaxFiles |-> 0]
            /\ nextId = 2
            /\ pending = SetToBag({ [id      |-> nextImages[1].id,
                                     url     |-> nextImages[1].url,
                                     file    |-> files[1],
                                     stale   |-> FALSE] })
            /\ exports = EmptyBag
            /\ download = NoDownload
            /\ ctxAvailable = TRUE
            /\ destroyed = FALSE
            /\ ingested = 1
            /\ edits = 0
            /\ added = 1

EdgeNext ==
    \/ \E p \in BagToSet(pending) : onload(p)
    \/ \E p \in BagToSet(pending) : onerror(p)

EdgeSpec == EdgeInit /\ [][EdgeNext]_vars

-----------------------------------------------------------------------------
(* Properties *)

\* C1: until teardown, the live byte-handles (object URLs created for
\* uploaded files and not yet revoked) are exactly the urls held by the
\* records of the registry, no two records hold the same url, and so there
\* are as many live handles as registered images.
C1_LiveHandlesAreRegistryHandles ==
    ~destroyed =>
        /\ DOMAIN blobStore = ImageUrls(uploadedImages)
        /\ \A i, j \in DOMAIN uploadedImages :
              i # j => uploadedImages[i].url # uploadedImages[j].url
        /\ Cardinality(DOMAIN blobStore) = Len(uploadedImages)

\* a file was just ingested behind another and both handles are live
C1_Witness ==
    /\ ~destroyed
    /\ added = 1
    /\ Len(uploadedImages) = 2
    /\ Cardinality(DOMAIN blobStore) = 2

\* C2: selectedId is null or the id of exactly one record of the registry,
\* and the ids of the registry are pairwise distinct.
C2_SelectionIsRegistered ==
    /\ \A i, j \in DOMAIN uploadedImages :
          i # j => uploadedImages[i].id # uploadedImages[j].id
    /\ \/ selectedId = NoId
       \/ Cardinality({ i \in DOMAIN uploadedImages :
                          uploadedImages[i].id = selectedId }) = 1

\* a click has moved the selection to the second of two records
C2_Witness ==
    /\ ~destroyed
    /\ Len(uploadedImages) = 2
    /\ selectedId = uploadedImages[2].id

\* C3: an addFiles call with at least one file selects the first file of the
\* call if the registry was empty before it, and leaves selectedId as it was
\* if the registry was not empty.
C3_IngestSelection ==
    [][added' >= 1 =>
          \A files \in FileInputs :
              addFiles(files) =>
                  IF Len(uploadedImages) = 0
                  THEN /\ selectedId' = NextImages(files, nextId)[1].id
                       /\ uploadedImages'[1].id = selectedId'
                       /\ uploadedImages'[1].name = files[1].name
                  ELSE selectedId' = selectedId]_vars

\* one file was just added to a registry whose only image had already been
\* drawn, and the selection is still that first image
C3_Witness ==
    /\ added = 1
    /\ Len(uploadedImages) = 2
    /\ canvas.drawn = uploadedImages[1].id
    /\ selectedId = uploadedImages[1].id

\* C4: removeAll releases every handle that was live, empties the registry,
\* clears the selection and sets the canvas to 0 x 0.
C4_RemoveAllClears ==
    [][removeAll =>
          /\ \A u \in DOMAIN blobStore : revoked'[u] = revoked[u] + 1
          /\ DOMAIN blobStore' = {}
          /\ uploadedImages' = <<>>
          /\ selectedId' = NoId
          /\ canvas'.width = 0
          /\ canvas'.height = 0]_vars

\* removeAll has released the handles of two registered images
C4_Witness ==
    /\ ~destroyed
    /\ revoked[1] = 1
    /\ revoked[2] = 1
    /\ DOMAIN blobStore = {}
    /\ uploadedImages = <<>>
    /\ selectedId = NoId
    /\ canvas.width = 0
    /\ canvas.height = 0

\* C5 (as claimed): once the component has sized the canvas, the canvas is
\* 0 x 0 whenever no image is selected, and otherwise, if it shows a decoded
\* image, has the scale-bounded size of that image, also when a decode
\* completes after the selection changed or after removeAll.
C5_SurfaceMatchesSelection ==
    (canvas.bound /\ canvas # MountedCanvas) =>
        IF selectedId = NoId
        THEN canvas.width = 0 /\ canvas.height = 0
        ELSE canvas.drawn # NoId =>
                \E f \in Files :
                    /\ f.decodable
                    /\ canvas.width  = ScaledSize(f.width, f.height).width
                    /\ canvas.height = ScaledSize(f.width, f.height).height

\* C6: a decode that completes draws with the effectSettings of the moment
\* of completion, whatever they were when drawPreview was called.
C6_SettingsReadAtCompletion ==
    [][\A p \in BagToSet(pending) :
          (onload(p) /\ canvas.bound) =>
              /\ canvas'.used = effectSettings
              /\ canvas'.used = effectSettings']_vars

\* a decode has completed after the settings were changed under it
C6_Witness ==
    /\ canvas.bound
    /\ canvas.drawn # NoId
    /\ canvas.raced
    /\ canvas.used = effectSettings
    /\ canvas.used # InitialSettings

\* C7: every completed decode is committed whatever is selected when it
\* completes: the canvas then shows the decoded image at its scale-bounded
\* size, also when another image has been selected meanwhile.
C7_StaleCompletionCommits ==
    [][\A p \in BagToSet(pending) :
          (onload(p) /\ canvas.bound) =>
              /\ canvas'.drawn = p.id
              /\ canvas'.width  = ScaledSize(p.file.width, p.file.height).width
              /\ canvas'.height = ScaledSize(p.file.width, p.file.height).height]_vars

\* image B is selected and decodable, every decode that was started has
\* completed (so B's render was committed), and the canvas shows another
\* image A of the registry, with A's size, because A completed last
C7_Witness ==
    /\ ~destroyed
    /\ ctxAvailable
    /\ pending = EmptyBag
    /\ selectedId # NoId
    /\ blobStore[selectedId].decodable
    /\ canvas.drawn # NoId
    /\ canvas.drawn # selectedId
    /\ \E i \in DOMAIN uploadedImages :
          /\ uploadedImages[i].id = canvas.drawn
          /\ canvas.width = ScaledSize(blobStore[uploadedImages[i].url].width,
                                       blobStore[uploadedImages[i].url].height).width

\* C8: for a decoded image of positive width and height the canvas is at
\* least 1 x 1 and at most 1024 wide, and an image at most 1024 wide keeps
\* its own size (scale 1).
C8_ScaleBounds ==
    canvas.drawn # NoId =>
        LET f == blobStore[uploadedImages[1].url]
        IN  /\ canvas.width >= 1
            /\ canvas.height >= 1
            /\ canvas.width <= maxWidth
            /\ f.width <= maxWidth =>
                  (canvas.width = f.width /\ canvas.height = f.height)
            /\ f.width > maxWidth => canvas.width = maxWidth

\* a 2049 x 1 image was decoded: its height scales to less than one half
\* and the canvas is 1024 x 1
C8_Witness ==
    /\ canvas.drawn # NoId
    /\ blobStore[uploadedImages[1].url].width = 2049
    /\ blobStore[uploadedImages[1].url].height = 1
    /\ canvas.width = 1024
    /\ canvas.height = 1

\* C9: addFiles with k files appends k records in file order behind the
\* existing ones, which stay as they are; only addFiles and removeAll change
\* the registry; the registry always holds as many images as files were
\* ingested since the last removeAll.
C9_RegistryFrame ==
    [][/\ Len(uploadedImages) = ingested
       /\ Len(uploadedImages') = ingested'
       /\ added' >= 1 =>
             \A files \in FileInputs :
                addFiles(files) =>
                   /\ Len(uploadedImages') = Len(uploadedImages) + Len(files)
                   /\ SubSeq(uploadedImages', 1, Len(uploadedImages)) = uploadedImages
                   /\ \A k \in 1..Len(files) :
                         LET r == uploadedImages'[Len(uploadedImages) + k]
                         IN  /\ r.name = files[k].name
                             /\ r.size = files[k].size
                             /\ r.type = files[k].type
                             /\ blobStore'[r.url] = files[k]
       /\ uploadedImages' # uploadedImages =>
             \/ \E files \in FileInputs : addFiles(files)
             \/ removeAll]_vars

\* a second file was appended behind an image that had already been drawn
C9_Witness ==
    /\ added = 1
    /\ Len(uploadedImages) = 2
    /\ ingested = 2
    /\ canvas.drawn = uploadedImages[1].id
    /\ uploadedImages[1].name # uploadedImages[2].name

\* C10: refresh adds exactly 1 to animationSeed and leaves the registry,
\* selectedId and effectSettings alone; no other task changes animationSeed;
\* the seed never decreases.
C10_SeedSteps ==
    [][/\ refreshDummyEffect =>
             /\ animationSeed' = animationSeed + 1
             /\ UNCHANGED <<uploadedImages, selectedId, effectSettings>>
       /\ ~refreshDummyEffect => animationSeed' = animationSeed
       /\ animationSeed' >= animationSeed]_vars

\* a refresh has stepped the seed of a selected image that had been drawn
\* with the seed before
C10_Witness ==
    /\ animationSeed = 1
    /\ selectedId # NoId
    /\ canvas.drawn = selectedId
    /\ canvas.seed = 0

C12_ExportRunsToCompletion ==
    [][exports # EmptyBag =>
          \E e \in BagToSet(exports) : downloadPreviewResume(e)]_vars

\* C13 (as claimed): every download that downloadPreview produces carries
\* the name of the image that was selected when downloadPreview was invoked,
\* followed by ".png".
C13_PreviewNamedAtInvocation ==
    [][\A e \in BagToSet(exports) :
          (downloadPreviewResume(e) /\ download'.kind = "preview") =>
              /\ download'.name = e.invoked
              /\ download'.suffix = ".png"]_vars

\* C14 (as claimed): every triggering event (a changed selectedId, a changed
\* setting, a refresh) causes exactly one invocation of drawPreview; with an
\* image selected and the canvas and its context at hand every invocation
\* starts one decode, so the event leaves exactly one more decode in flight.
C14_OneRenderPerTrigger ==
    [][(selectedId' # NoId /\ canvas.bound /\ ctxAvailable) =>
          /\ refreshDummyEffect =>
                BagCardinality(pending') = BagCardinality(pending) + 1
          /\ effectSettings' # effectSettings =>
                BagCardinality(pending') = BagCardinality(pending) + 1
          /\ selectedId' # selectedId =>
                BagCardinality(pending') = BagCardinality(pending) + 1]_vars

\* C15: no object URL created for an uploaded file is ever revoked twice,
\* none that was never created is revoked, and once the component is
\* destroyed every one that was created has been revoked exactly once.
C15_ReleasedExactlyOnce ==
    /\ \A u \in 1..MaxFiles :
          /\ revoked[u] <= 1
          /\ u >= nextId => revoked[u] = 0
          /\ u \in DOMAIN blobStore => revoked[u] = 0
    /\ destroyed =>
          /\ DOMAIN blobStore = {}
          /\ \A u \in 1..(nextId - 1) : revoked[u] = 1

\* the component was destroyed after one image had been released by
\* removeAll and another was still registered
C15_Witness ==
    /\ destroyed
    /\ nextId = 3
    /\ Len(uploadedImages) = 1
    /\ revoked[1] = 1
    /\ revoked[2] = 1

\* C17 (as claimed): the render of a file that does not decode, or that
\* decodes to zero width or zero height, leaves the size and the contents of
\* the canvas as they were (here: as mounted).
C17_EdgeImageLeavesSurface ==
    /\ canvas.width = CanvasDefaultWidth
    /\ canvas.height = CanvasDefaultHeight
    /\ canvas.drawn = NoId

\* C18: a task that invokes drawPreview (a refresh, a changed setting, a
\* changed selectedId) while, after the handler, no image is selected, or the
\* canvas is not bound, or it yields no 2D context, starts no decode and
\* leaves the canvas as the handler left it; the registry, the selection,
\* the settings and the seed are what the handler made them.
C18_DrawPreviewNoOp ==
    [][((refreshDummyEffect \/ effectSettings' # effectSettings
                           \/ selectedId' # selectedId)
        /\ (selectedImage(uploadedImages', selectedId') = {}
            \/ ~canvas'.bound \/ ~ctxAvailable)) =>
          /\ BagCardinality(pending') = BagCardinality(pending)
          /\ BagToSet(pending') = BagToSet(IF effectSettings' # effectSettings
                                           THEN MarkStale(pending) ELSE pending)
          /\ canvas' = IF removeAll THEN RemoveAllCanvas(canvas) ELSE canvas
          /\ exports' = exports]_vars

\* without a 2D context: an image was ingested and selected, removeAll
\* cleared the selection, a setting was changed, and none of the three
\* invocations of drawPreview has started a decode
C18_Witness ==
    /\ ~ctxAvailable
    /\ canvas.bound
    /\ revoked[1] = 1
    /\ selectedId = NoId
    /\ edits = 1
    /\ effectSettings # InitialSettings
    /\ pending = EmptyBag

\* C19: until teardown, every decode that a task starts reads the url of the
\* selected record, which is in the registry and has not been revoked when
\* img.src is set, and every download that downloadOriginal triggers links
\* to the url of a registered record that has not been revoked.
C19_NoUseAfterRelease ==
    [][/\ LET before == IF effectSettings' # effectSettings
                        THEN MarkStale(pending) ELSE pending
          IN  \A x \in BagToSet(pending' (-) before) :
                 /\ x.id = selectedId'
                 /\ x.url \in ImageUrls(uploadedImages')
                 /\ x.url \in DOMAIN blobStore'
                 /\ revoked'[x.url] = 0
       /\ (downloadOriginal /\ download'.kind = "original") =>
             \E i \in DOMAIN uploadedImages :
                 /\ uploadedImages[i].id = selectedId
                 /\ uploadedImages[i].name = download'.name
                 /\ uploadedImages[i].url \in DOMAIN blobStore
                 /\ revoked[uploadedImages[i].url] = 0]_vars

\* after removeAll released the first image a second one was ingested; its
\* decode is in flight on its live url and its original was downloaded
C19_Witness ==
    /\ ~destroyed
    /\ revoked[1] = 1
    /\ selectedId = 2
    /\ download.kind = "original"
    /\ \E x \in BagToSet(pending) : x.url = 2 /\ 2 \in DOMAIN blobStore

\* C20: whenever an image is selected, the canvas is bound and yields a
\* context, no decode is in flight and every registered file is one whose
\* decode completes, the canvas shows a committed draw, and that draw used
\* the current effectSettings and the current animationSeed (the image it
\* shows need not be the selected one).
C20_QuiescentSettingsCurrent ==
    (/\ selectedId # NoId
     /\ canvas.bound
     /\ ctxAvailable
     /\ pending = EmptyBag
     /\ \A i \in DOMAIN uploadedImages :
           Resolve(blobStore, uploadedImages[i].url).decodable) =>
        /\ canvas.drawn # NoId
        /\ canvas.used = effectSettings
        /\ canvas.seed = animationSeed

\* every decode has completed after a refresh of a selected image and the
\* canvas carries the stepped seed
C20_Witness ==
    /\ selectedId # NoId
    /\ canvas.bound
    /\ ctxAvailable
    /\ pending = EmptyBag
    /\ animationSeed = 1
    /\ canvas.drawn # NoId
    /\ canvas.seed = 1
    /\ canvas.used = effectSettings

====
